---- MODULE Spec2Model ----
(***************************************************************************)
(* HypnosExecutor: the permission ledger and the gate of                   *)
(* contracts/contracts/HypnosExecutor.sol.                                 *)
(*                                                                         *)
(* keccak256(abi.encodePacked(...)) is modelled as the tuple of its        *)
(* arguments (an injective hash): two ids are equal exactly when the       *)
(* hashed fields are equal.                                                *)
(*                                                                         *)
(* Transactions run one at a time.  A call that a require rejects changes  *)
(* no storage; its outcome is held in `result` until the caller has it     *)
(* (Returned), and only then is the next call made.  A gated call is two   *)
(* steps around its external call: the step that passes the gate opens     *)
(* `frame`, the invoked contract may then call back into the ledger, and   *)
(* CallReturns / TransferReturns finish the call.  A reverting call frame  *)
(* restores the storage and the log saved when it was opened.              *)
(*                                                                         *)
(* Spec is the ledger alone.  MirrorSpec attaches the indexer of           *)
(* indexer/src: the ledger runs, its log is served with block and          *)
(* transaction data, and the event handlers then run over the served log.  *)
(***************************************************************************)
EXTENDS Integers, Sequences, FiniteSets, TLC

\* ---------------------------------------------------------------- bounds
\* the log length up to which grants and revocations are made
MaxEvents == 3
\* the value and token limit of the capabilities granted
Limit == 1
\* the expiry of the capabilities granted with one
Expiry == 2

\* the chain is followed from the second before Expiry to the second after
FirstTime == Expiry - 1
LastTime == Expiry + 1

\* ------------------------------------------------------------- addresses
ZeroAddress == "0x0"
HypnosExecutor == "executor"
Alice == "alice"
Demo == "demo"
Account == "account"
Token == "token"

\* msg.sender of the top-level calls
Callers == {Alice, Account}
\* contracts whose code may call back into the ledger while they run
CallbackCapable == {Account, Token}

\* ------------------------------------------------------------- selectors
Wildcard == "0x00000000"
SelIncrement == "0xd09de08a"
SelDeposit == "0xd0e30db0"
SelTransfer == "0xa9059cbb"

\* calldata: a sequence whose first element stands for its leading 4 bytes
Payloads == {<<SelIncrement>>, <<SelDeposit>>}

\* bytes4(data): the leading four bytes, zero when there are none
bytes4(data) == IF Len(data) = 0 THEN Wildcard ELSE data[1]

\* ------------------------------------------------------ reentrancy guard
NOT_ENTERED == "NOT_ENTERED"
ENTERED == "ENTERED"

\* ----------------------------------------------------------- return data
\* The bytes an inner call hands back, by the features the ledger reads:
\* the length, whether the first four bytes are the Error(string) selector
\* 0x08c379a0, and what abi.decode makes of the rest.
NoData == [length |-> 0, errorSelector |-> FALSE, decodes |-> FALSE, message |-> ""]
ShortError == [length |-> 4, errorSelector |-> TRUE, decodes |-> FALSE, message |-> ""]
CustomError == [length |-> 68, errorSelector |-> FALSE, decodes |-> FALSE, message |-> ""]
ErrorString(m) == [length |-> 100, errorSelector |-> TRUE, decodes |-> TRUE, message |-> m]
MalformedError == [length |-> 68, errorSelector |-> TRUE, decodes |-> FALSE, message |-> ""]

RevertDatas == {NoData, ShortError, CustomError, ErrorString("boom"),
                ErrorString("success"), MalformedError}

\* the outcome of abi.decode reverting inside _extractRevertReason
DecodeReverts == "<abi.decode reverts>"

extractRevertReason(returnData) ==
    IF returnData.length = 0 THEN "unknown error"
    ELSE IF returnData.length >= 68 /\ returnData.errorSelector
         THEN IF returnData.decodes THEN returnData.message ELSE DecodeReverts
         ELSE "execution reverted"

\* ------------------------------------------------------------- the state
VARIABLES
    permissions,        \* mapping(address => mapping(bytes32 => Permission))
    userPermissions,    \* mapping(address => bytes32[])
    executions,         \* mapping(bytes32 => ExecutionRecord)
    executionHistory,   \* bytes32[]
    events,             \* the log of emitted events, in emission order
    timestamp,          \* block.timestamp
    blockNumber,        \* block.number
    status,             \* ReentrancyGuard._status
    frame,              \* the gated call whose external call is running
    result,             \* what the last finished top-level call did
    stream,             \* the log as the chain serves it to an indexer
    mirror,             \* the indexer's entity stores
    cursor,             \* how many events of the stream the indexer has handled
    pass,               \* 0: no indexer attached, 1: first pass, 2: replay
    single,             \* the event handed to the indexer on its own, 0: none
    state               \* HypnosDemo.state: the counter and its last caller

vars == <<permissions, userPermissions, executions, executionHistory, events,
          timestamp, blockNumber, status, frame, result, stream, mirror, cursor,
          pass, single, state>>

NoFrame == [kind |-> "none"]
NoResult == [op |-> "none"]

\* the zero-initialised struct a mapping read returns for an unset key
ZeroPermission ==
    [target |-> ZeroAddress, selector |-> Wildcard, maxValue |-> 0,
     maxTokenAmount |-> 0, tokenAddress |-> ZeroAddress, expiry |-> 0,
     active |-> FALSE]

\* permissions[user][permissionId]
getPermission(perms, user, permissionId) ==
    IF user \in DOMAIN perms /\ permissionId \in DOMAIN perms[user]
    THEN perms[user][permissionId]
    ELSE ZeroPermission

getUserPermissions(executor) == userPermissions[executor]

getExecutionCount == Len(executionHistory)

\* the entity stores of the two handler sets, before any event is handled
EmptyStore ==
    [Permission |-> << >>, Execution |-> << >>, PermissionGrantedEvent |-> << >>,
     PermissionRevokedEvent |-> << >>, PermissionUsedEvent |-> << >>]
EmptyMirror == [envio |-> EmptyStore, graph |-> EmptyStore]

\* the contract as deployed, and an indexer that has handled nothing
Deployed ==
    /\ permissions = [u \in Callers |-> << >>]
    /\ userPermissions = [u \in Callers |-> << >>]
    /\ executions = << >>
    /\ executionHistory = << >>
    /\ events = << >>
    /\ timestamp = FirstTime
    /\ blockNumber = 1
    /\ status = NOT_ENTERED
    /\ frame = NoFrame
    /\ result = NoResult
    /\ stream = << >>
    /\ mirror = EmptyMirror
    /\ cursor = 0
    /\ single = 0
    /\ state = [counter |-> 0, lastCaller |-> ZeroAddress]

Init ==
    /\ Deployed
    /\ pass = 0

\* f with key k set to v (a mapping write)
Put(f, k, v) == [x \in DOMAIN f \cup {k} |-> IF x = k THEN v ELSE f[x]]

\* the expiry check that turns the capability down at its last second
NotExpiredStrict(perm, now) == perm.expiry = 0 \/ perm.expiry > now

\* the expiry check one second too lenient
NotExpiredLate(perm, now) == perm.expiry = 0 \/ perm.expiry + 1 >= now

\* does the capability allow a run that reached block time `now`
NotExpired(perm, now) == perm.expiry = 0 \/ perm.expiry >= now

\* the modifier left off the function
nonReentrantMissing(st) == TRUE

\* the modifier nonReentrant: the call is let in only while no guarded
\* call is running
nonReentrant(st) == st # ENTERED

ReentrantCall == "ReentrancyGuardReentrantCall"
Ok == "ok"

\* the calls the model makes room for: a grant or a revocation needs a free
\* slot in the log, a gated call starts while the log is not over its bound
Room == Len(events) < MaxEvents
RoomForCall == Len(events) <= MaxEvents

\* who may be calling now: an account at top level, or the contract that
\* the running gated call has invoked
TopLevel == frame = NoFrame
MaySend(sender) ==
    /\ result = NoResult
    /\ \/ TopLevel /\ sender \in Callers
       \/ ~TopLevel /\ frame.target \in CallbackCapable /\ sender = frame.target

\* ------------------------------------------------------- grantPermission
Grantable(executor, target, selector, tokenAddress, expiry) ==
    [executor |-> executor, target |-> target, selector |-> selector,
     maxValue |-> Limit, maxTokenAmount |-> Limit, tokenAddress |-> tokenAddress,
     expiry |-> expiry]

\* the grants a run may ask for: one function of the target until Expiry
\* with a token allowance, any function without expiry held by the smart
\* account on itself, and a grant on the null target until Expiry
GrantInputs ==
    {Grantable(Alice, Account, SelIncrement, Token, Expiry),
     Grantable(Account, Account, Wildcard, ZeroAddress, 0),
     Grantable(Alice, ZeroAddress, Wildcard, ZeroAddress, Expiry)}

\* the two requires in the other order
GrantErrorExpiryFirst(a, now) ==
    IF ~(a.expiry = 0 \/ a.expiry > now) THEN "HypnosExecutor: expired"
    ELSE IF a.target = ZeroAddress THEN "HypnosExecutor: invalid target"
    ELSE "ok"

GrantError(a, now) ==
    IF a.target = ZeroAddress THEN "HypnosExecutor: invalid target"
    ELSE IF ~(a.expiry = 0 \/ a.expiry > now) THEN "HypnosExecutor: expired"
    ELSE Ok

\* keccak256(abi.encodePacked(executor, target, selector, maxValue,
\*   maxTokenAmount, tokenAddress, expiry, block.timestamp, block.number))
PermissionId(a, now, number) ==
    <<a.executor, a.target, a.selector, a.maxValue, a.maxTokenAmount,
      a.tokenAddress, a.expiry, now, number>>

\* the struct stored without the value limit
NewPermissionNoLimit(a) ==
    [target |-> a.target, selector |-> a.selector, maxValue |-> 0,
     maxTokenAmount |-> a.maxTokenAmount, tokenAddress |-> a.tokenAddress,
     expiry |-> a.expiry, active |-> TRUE]

NewPermission(a) ==
    [target |-> a.target, selector |-> a.selector, maxValue |-> a.maxValue,
     maxTokenAmount |-> a.maxTokenAmount, tokenAddress |-> a.tokenAddress,
     expiry |-> a.expiry, active |-> TRUE]

PermissionGranted(a, id) ==
    [event |-> "PermissionGranted", user |-> a.executor, permissionId |-> id,
     target |-> a.target, selector |-> a.selector, maxValue |-> a.maxValue,
     maxTokenAmount |-> a.maxTokenAmount, tokenAddress |-> a.tokenAddress,
     expiry |-> a.expiry]

grantPermission(sender, a) ==
    /\ MaySend(sender)
    /\ LET err == GrantError(a, timestamp)
           id == PermissionId(a, timestamp, blockNumber)
       IN IF err # Ok
          THEN /\ result' = [op |-> "grantPermission", status |-> err, args |-> a]
               /\ UNCHANGED <<permissions, userPermissions, events>>
          ELSE /\ Room
               /\ permissions' =
                    [permissions EXCEPT ![a.executor] = Put(@, id, NewPermission(a))]
               /\ userPermissions' =
                    [userPermissions EXCEPT ![a.executor] = Append(@, id)]
               /\ events' = Append(events, PermissionGranted(a, id))
               /\ result' = [op |-> "grantPermission", status |-> Ok, args |-> a,
                             permissionId |-> id]
    /\ UNCHANGED <<executions, executionHistory, timestamp, blockNumber, status, frame>>

\* ------------------------------------------------------ revokePermission
PermissionRevoked(user, id) ==
    [event |-> "PermissionRevoked", user |-> user, permissionId |-> id]

\* the ids a caller may name: every id that was ever granted to anybody
KnownIds == UNION {DOMAIN permissions[u] : u \in Callers}

\* the lookup answering for an id the caller holds nothing under
RevokeErrorNone(perm) == "ok"

\* require(perm.target != address(0)) on the caller's own entry
RevokeError(perm) ==
    IF perm.target = ZeroAddress THEN "HypnosExecutor: permission not found" ELSE Ok

\* the revocation that also ends the capability's term
DeactivateAndExpire(perm) == [perm EXCEPT !.active = FALSE, !.expiry = 1]

\* the revocation that also clears the value limit
DeactivateAndClear(perm) == [perm EXCEPT !.active = FALSE, !.maxValue = 0]

\* perm.active = false
Deactivate(perm) == [perm EXCEPT !.active = FALSE]

\* the event emitted before the require
revokePermissionLogging(sender, permissionId) ==
    /\ MaySend(sender)
    /\ Room
    /\ LET perm == getPermission(permissions, sender, permissionId)
           err == RevokeError(perm)
       IN /\ events' = Append(events, PermissionRevoked(sender, permissionId))
          /\ result' = [op |-> "revokePermission", sender |-> sender,
                        permissionId |-> permissionId, status |-> err]
          /\ IF err # Ok
             THEN UNCHANGED permissions
             ELSE permissions' =
                    Put(permissions, sender,
                        Put(IF sender \in DOMAIN permissions THEN permissions[sender]
                            ELSE << >>,
                            permissionId, Deactivate(perm)))
    /\ UNCHANGED <<userPermissions, executions, executionHistory, timestamp,
                   blockNumber, status, frame>>

revokePermission(sender, permissionId) ==
    /\ MaySend(sender)
    /\ LET perm == getPermission(permissions, sender, permissionId)
           err == RevokeError(perm)
       IN IF err # Ok
          THEN /\ result' = [op |-> "revokePermission", sender |-> sender,
                             permissionId |-> permissionId, status |-> err]
               /\ UNCHANGED <<permissions, events>>
          ELSE /\ Room
               /\ permissions' =
                    Put(permissions, sender,
                        Put(IF sender \in DOMAIN permissions THEN permissions[sender]
                            ELSE << >>,
                            permissionId, Deactivate(perm)))
               /\ events' = Append(events, PermissionRevoked(sender, permissionId))
               /\ result' = [op |-> "revokePermission", sender |-> sender,
                             permissionId |-> permissionId, status |-> Ok]
    /\ UNCHANGED <<userPermissions, executions, executionHistory, timestamp,
                   blockNumber, status, frame>>

\* -------------------------------------------------- executeWithPermission
CallTargets == {Demo, Account}
Values == Limit .. (Limit + 1)

\* the require chain without the check of the active flag
GateErrorNoActive(perm, target, data, value, now) ==
    IF perm.target = ZeroAddress THEN "HypnosExecutor: permission not found"
    ELSE IF perm.target # target THEN "HypnosExecutor: target mismatch"
    ELSE IF ~NotExpired(perm, now) THEN "HypnosExecutor: permission expired"
    ELSE IF perm.selector # Wildcard /\ perm.selector # bytes4(data)
         THEN "HypnosExecutor: selector mismatch"
    ELSE IF ~(value <= perm.maxValue) THEN "HypnosExecutor: value exceeds limit"
    ELSE "ok"

\* the require chain with the target checked before the active flag
GateErrorTargetFirst(perm, target, data, value, now) ==
    IF perm.target = ZeroAddress THEN "HypnosExecutor: permission not found"
    ELSE IF perm.target # target THEN "HypnosExecutor: target mismatch"
    ELSE IF ~perm.active THEN "HypnosExecutor: permission inactive"
    ELSE IF ~NotExpired(perm, now) THEN "HypnosExecutor: permission expired"
    ELSE IF perm.selector # Wildcard /\ perm.selector # bytes4(data)
         THEN "HypnosExecutor: selector mismatch"
    ELSE IF ~(value <= perm.maxValue) THEN "HypnosExecutor: value exceeds limit"
    ELSE "ok"

\* the require chain without the value limit
GateErrorNoValue(perm, target, data, value, now) ==
    IF perm.target = ZeroAddress THEN "HypnosExecutor: permission not found"
    ELSE IF ~perm.active THEN "HypnosExecutor: permission inactive"
    ELSE IF perm.target # target THEN "HypnosExecutor: target mismatch"
    ELSE IF ~NotExpired(perm, now) THEN "HypnosExecutor: permission expired"
    ELSE IF perm.selector # Wildcard /\ perm.selector # bytes4(data)
         THEN "HypnosExecutor: selector mismatch"
    ELSE "ok"

\* the require chain of executeWithPermission, in source order
GateError(perm, target, data, value, now) ==
    IF perm.target = ZeroAddress THEN "HypnosExecutor: permission not found"
    ELSE IF ~perm.active THEN "HypnosExecutor: permission inactive"
    ELSE IF perm.target # target THEN "HypnosExecutor: target mismatch"
    ELSE IF ~NotExpired(perm, now) THEN "HypnosExecutor: permission expired"
    ELSE IF perm.selector # Wildcard /\ perm.selector # bytes4(data)
         THEN "HypnosExecutor: selector mismatch"
    ELSE IF ~(value <= perm.maxValue) THEN "HypnosExecutor: value exceeds limit"
    ELSE Ok

\* keccak256(abi.encodePacked(msg.sender, target, data, value,
\*   block.timestamp, block.number))
ExecutionId(sender, target, data, value, now, number) ==
    <<sender, target, data, value, now, number>>

\* the record filed under the contract that was called
ExecutionRecordOfCallee(c, success, reason) ==
    [executor |-> c.target, target |-> c.target, selector |-> c.selector,
     value |-> c.value, data |-> c.data, timestamp |-> timestamp,
     permissionId |-> c.permissionId, success |-> success, reason |-> reason]

ExecutionRecord(c, success, reason) ==
    [executor |-> c.sender, target |-> c.target, selector |-> c.selector,
     value |-> c.value, data |-> c.data, timestamp |-> timestamp,
     permissionId |-> c.permissionId, success |-> success, reason |-> reason]

ExecutionRecorded(c, success, reason) ==
    [event |-> "ExecutionRecorded", executionId |-> c.executionId,
     executor |-> c.sender, target |-> c.target, selector |-> c.selector,
     value |-> c.value, permissionId |-> c.permissionId, success |-> success,
     reason |-> reason]

\* the event that reports every use as a success
PermissionUsedUnflagged(c, value, success) ==
    [event |-> "PermissionUsed", user |-> c.sender,
     permissionId |-> c.permissionId, executionId |-> c.executionId,
     target |-> c.target, selector |-> c.selector, value |-> value,
     success |-> TRUE]

PermissionUsed(c, value, success) ==
    [event |-> "PermissionUsed", user |-> c.sender,
     permissionId |-> c.permissionId, executionId |-> c.executionId,
     target |-> c.target, selector |-> c.selector, value |-> value,
     success |-> success]

\* lines 229-265: the record, the history entry and the two events, on top
\* of the ledger state `base` that the inner call has left
RecordExecution(c, success, reason, returnData, base) ==
    /\ executions' = Put(base.executions, c.executionId, ExecutionRecord(c, success, reason))
    /\ executionHistory' = Append(base.executionHistory, c.executionId)
    /\ events' = base.events \o <<ExecutionRecorded(c, success, reason),
                                  PermissionUsed(c, c.value, success)>>
    /\ result' = [op |-> "executeWithPermission", status |-> Ok, call |-> c,
                  success |-> success, returnData |-> returnData]

\* the ledger's storage and log, as a revert restores them
Ledger ==
    [permissions |-> permissions, userPermissions |-> userPermissions,
     executions |-> executions, executionHistory |-> executionHistory,
     events |-> events]

\* the call as the gate has let it through
GatedCall(sender, permissionId, target, data, value) ==
    [kind |-> "call", sender |-> sender, permissionId |-> permissionId,
     target |-> target, data |-> data, value |-> value,
     selector |-> bytes4(data),
     executionId |-> ExecutionId(sender, target, data, value, timestamp, blockNumber)]

Rejected(op, sender, permissionId, target, data, value, err) ==
    [op |-> op, status |-> err, sender |-> sender, permissionId |-> permissionId,
     target |-> target, data |-> data, value |-> value]

executeWithPermission(sender, permissionId, target, data, value) ==
    /\ MaySend(sender)
    /\ LET perm == getPermission(permissions, sender, permissionId)
           err == IF ~nonReentrant(status) THEN ReentrantCall
                  ELSE GateError(perm, target, data, value, timestamp)
           c == GatedCall(sender, permissionId, target, data, value)
       IN IF err # Ok
          THEN /\ result' = Rejected("executeWithPermission", sender, permissionId,
                                     target, data, value, err)
               /\ UNCHANGED <<permissions, userPermissions, executions,
                              executionHistory, events, status, frame>>
          ELSE /\ RoomForCall
               /\ IF TopLevel
                  THEN \* target.call{value: value}(data) starts
                       /\ frame' = c @@ [saved |-> Ledger]
                       /\ status' = ENTERED
                       /\ result' = NoResult
                       /\ UNCHANGED <<permissions, userPermissions, executions,
                                      executionHistory, events>>
                  ELSE \* a call let in while another one runs: it runs to its end
                       \* inside the running one
                       /\ RecordExecution(c, TRUE, "success", NoData, Ledger)
                       /\ UNCHANGED <<permissions, userPermissions, status, frame>>
    /\ UNCHANGED <<timestamp, blockNumber>>

\* the frame without the saved storage: the call itself
CallOf(f) == [x \in DOMAIN f \ {"saved"} |-> f[x]]

\* a revert of the whole transaction: storage and log as they were
RevertAll ==
    /\ permissions' = frame.saved.permissions
    /\ userPermissions' = frame.saved.userPermissions
    /\ executions' = frame.saved.executions
    /\ executionHistory' = frame.saved.executionHistory
    /\ events' = frame.saved.events

\* the inner call of executeWithPermission returns
CallReturns(success, returnData) ==
    /\ frame.kind = "call"
    /\ result = NoResult
    /\ LET reason == IF success THEN "success" ELSE extractRevertReason(returnData)
           \* a failed inner call undoes what the target did to the ledger
           base == IF success THEN Ledger ELSE frame.saved
       IN IF reason = DecodeReverts
          THEN \* abi.decode reverts, and the transaction with it
               /\ RevertAll
               /\ result' = Rejected("executeWithPermission", frame.sender,
                                     frame.permissionId, frame.target, frame.data,
                                     frame.value, "reverted")
          ELSE /\ permissions' = base.permissions
               /\ userPermissions' = base.userPermissions
               /\ RecordExecution(CallOf(frame), success, reason, returnData, base)
    /\ status' = NOT_ENTERED
    /\ frame' = NoFrame
    /\ UNCHANGED <<timestamp, blockNumber>>

\* --------------------------------------------------- executeTokenTransfer
Recipients == {Demo}

\* the amount held against the value limit of the generic path
TokenGateErrorByValue(perm, tokenAddress, amount, now) ==
    IF perm.target = ZeroAddress THEN "HypnosExecutor: permission not found"
    ELSE IF ~perm.active THEN "HypnosExecutor: permission inactive"
    ELSE IF perm.tokenAddress # tokenAddress THEN "HypnosExecutor: token mismatch"
    ELSE IF ~(amount <= perm.maxValue) THEN "HypnosExecutor: amount exceeds limit"
    ELSE IF ~NotExpired(perm, now) THEN "HypnosExecutor: permission expired"
    ELSE Ok

TokenGateError(perm, tokenAddress, amount, now) ==
    IF perm.target = ZeroAddress THEN "HypnosExecutor: permission not found"
    ELSE IF ~perm.active THEN "HypnosExecutor: permission inactive"
    ELSE IF perm.tokenAddress # tokenAddress THEN "HypnosExecutor: token mismatch"
    ELSE IF ~(amount <= perm.maxTokenAmount) THEN "HypnosExecutor: amount exceeds limit"
    ELSE IF ~NotExpired(perm, now) THEN "HypnosExecutor: permission expired"
    ELSE Ok

\* keccak256(abi.encodePacked(msg.sender, tokenAddress, to, amount, block.timestamp))
TransferId(sender, tokenAddress, to, amount, now) ==
    <<sender, tokenAddress, to, amount, now>>

TransferCall(sender, permissionId, tokenAddress, to, amount) ==
    [kind |-> "transfer", sender |-> sender, permissionId |-> permissionId,
     target |-> tokenAddress, to |-> to, amount |-> amount,
     data |-> <<SelTransfer, to, amount>>, value |-> 0, selector |-> SelTransfer,
     executionId |-> TransferId(sender, tokenAddress, to, amount, timestamp)]

\* lines 304-339
RecordTransfer(c, base) ==
    /\ executions' = Put(base.executions, c.executionId,
                         [executor |-> c.sender, target |-> c.target,
                          selector |-> SelTransfer, value |-> 0, data |-> c.data,
                          timestamp |-> timestamp, permissionId |-> c.permissionId,
                          success |-> TRUE, reason |-> "success"])
    /\ executionHistory' = Append(base.executionHistory, c.executionId)
    /\ events' = base.events \o
         <<[event |-> "ExecutionRecorded", executionId |-> c.executionId,
            executor |-> c.sender, target |-> c.target, selector |-> SelTransfer,
            value |-> 0, permissionId |-> c.permissionId, success |-> TRUE,
            reason |-> "success"],
           [event |-> "PermissionUsed", user |-> c.sender,
            permissionId |-> c.permissionId, executionId |-> c.executionId,
            target |-> c.target, selector |-> SelTransfer, value |-> c.amount,
            success |-> TRUE]>>
    /\ result' = [op |-> "executeTokenTransfer", status |-> Ok, call |-> c,
                  success |-> TRUE]

TransferFailed == "SafeERC20FailedOperation"

executeTokenTransfer(sender, permissionId, tokenAddress, to, amount) ==
    /\ MaySend(sender)
    /\ LET perm == getPermission(permissions, sender, permissionId)
           err == IF ~nonReentrant(status) THEN ReentrantCall
                  ELSE IF TokenGateError(perm, tokenAddress, amount, timestamp) # Ok
                  THEN TokenGateError(perm, tokenAddress, amount, timestamp)
                  \* safeTransferFrom on an address without code fails
                  ELSE IF tokenAddress = ZeroAddress THEN TransferFailed
                  ELSE Ok
           c == TransferCall(sender, permissionId, tokenAddress, to, amount)
       IN IF err # Ok
          THEN /\ result' = Rejected("executeTokenTransfer", sender, permissionId,
                                     tokenAddress, <<to>>, amount, err)
               /\ UNCHANGED <<permissions, userPermissions, executions,
                              executionHistory, events, status, frame>>
          ELSE /\ RoomForCall
               /\ IF TopLevel
                  THEN \* token.safeTransferFrom(msg.sender, to, amount) starts
                       /\ frame' = c @@ [saved |-> Ledger]
                       /\ status' = ENTERED
                       /\ result' = NoResult
                       /\ UNCHANGED <<permissions, userPermissions, executions,
                                      executionHistory, events>>
                  ELSE /\ RecordTransfer(c, Ledger)
                       /\ UNCHANGED <<permissions, userPermissions, status, frame>>
    /\ UNCHANGED <<timestamp, blockNumber>>

\* the guard left set when the transfer fails
TransferReturnsHolding(success) ==
    /\ frame.kind = "transfer"
    /\ result = NoResult
    /\ IF success
       THEN /\ RecordTransfer(CallOf(frame), Ledger)
            /\ status' = NOT_ENTERED
            /\ UNCHANGED <<permissions, userPermissions>>
       ELSE /\ RevertAll
            /\ status' = status
            /\ result' = Rejected("executeTokenTransfer", frame.sender,
                                  frame.permissionId, frame.target, <<frame.to>>,
                                  frame.amount, TransferFailed)
    /\ frame' = NoFrame
    /\ UNCHANGED <<timestamp, blockNumber>>

\* a failed transfer reported to the caller but kept in the history
TransferReturnsRecording(success) ==
    /\ frame.kind = "transfer"
    /\ result = NoResult
    /\ IF success
       THEN /\ RecordTransfer(CallOf(frame), Ledger)
            /\ UNCHANGED <<permissions, userPermissions>>
       ELSE /\ executions' = Put(executions, frame.executionId,
                                 [executor |-> frame.sender, success |-> FALSE])
            /\ executionHistory' = Append(executionHistory, frame.executionId)
            /\ result' = Rejected("executeTokenTransfer", frame.sender,
                                  frame.permissionId, frame.target, <<frame.to>>,
                                  frame.amount, TransferFailed)
            /\ UNCHANGED <<permissions, userPermissions, events>>
    /\ status' = NOT_ENTERED
    /\ frame' = NoFrame
    /\ UNCHANGED <<timestamp, blockNumber>>

\* token.safeTransferFrom returns; a failed transfer fails the transaction
TransferReturns(success) ==
    /\ frame.kind = "transfer"
    /\ result = NoResult
    /\ IF success
       THEN /\ RecordTransfer(CallOf(frame), Ledger)
            /\ UNCHANGED <<permissions, userPermissions>>
       ELSE /\ RevertAll
            /\ result' = Rejected("executeTokenTransfer", frame.sender,
                                  frame.permissionId, frame.target, <<frame.to>>,
                                  frame.amount, TransferFailed)
    /\ status' = NOT_ENTERED
    /\ frame' = NoFrame
    /\ UNCHANGED <<timestamp, blockNumber>>

\* ------------------------------------------------------------ the chain
\* the next block is mined: no gated call spans two blocks
NextBlock ==
    /\ TopLevel
    /\ result = NoResult
    /\ timestamp < LastTime
    /\ timestamp' = timestamp + 1
    /\ blockNumber' = blockNumber + 1
    /\ UNCHANGED <<result, permissions, userPermissions, executions, executionHistory,
                   events, status, frame>>

\* the caller has the outcome of its call; the next call can be made
Returned ==
    /\ result # NoResult
    /\ result' = NoResult
    /\ UNCHANGED <<permissions, userPermissions, executions, executionHistory,
                   events, timestamp, blockNumber, status, frame>>

\* ------------------------------------------------- the log as it is served
\* The chain hands every log of a mined transaction to the indexers with the
\* transaction's hash, the log's index in its block, and the block.  A
\* transaction hash is modelled by the number of logs that precede the
\* transaction (no two transactions that log something share it).
TxStart == IF TopLevel THEN Len(events) ELSE Len(frame.saved.events)

\* the logs among the first n served that older blocks hold
InOlderBlocks(n) ==
    Cardinality({j \in 1 .. n : j <= Len(stream) /\ stream[j].blockNumber < blockNumber})

\* the log `newlog` as it is served: what was served and still stands keeps
\* its place, what the running transaction has put in gets this block's
Served(newlog) ==
    [i \in 1 .. Len(newlog) |->
        IF i <= Len(stream) /\ stream[i].log = newlog[i]
        THEN stream[i]
        ELSE [log |-> newlog[i], transactionHash |-> TxStart,
              logIndex |-> i - 1 - InOlderBlocks(i - 1),
              timestamp |-> timestamp, blockNumber |-> blockNumber]]

\* the ledger's side of every step.  With no indexer attached nothing is
\* served.  With one attached the ledger is followed until the indexer
\* starts, and only through the calls that go through: a call that reverts
\* leaves storage and log as they were.  No capability of GrantInputs is on
\* HypnosDemo, so its state stands.
Live == pass = 0 \/ (pass = 1 /\ cursor = 0 /\ single = 0)

Chain ==
    /\ IF pass = 0
       THEN UNCHANGED stream
       ELSE /\ Live
            /\ IF result' = NoResult THEN TRUE ELSE result'.status = Ok
            /\ stream' = Served(events')
    /\ UNCHANGED <<mirror, cursor, pass, single, state>>

Senders == Callers \cup CallbackCapable

Grant ==
    /\ Live
    /\ \E s \in Senders, a \in GrantInputs : grantPermission(s, a) /\ Chain
Revoke ==
    /\ Live
    /\ \E s \in Senders, id \in KnownIds : revokePermission(s, id) /\ Chain
Execute ==
    /\ Live
    /\ \E s \in Senders, id \in KnownIds, t \in CallTargets, d \in Payloads,
          v \in Values :
           executeWithPermission(s, id, t, d, v) /\ Chain
ExecuteToken ==
    /\ Live
    /\ \E s \in Senders, id \in KnownIds, t \in {ZeroAddress, Token},
          to \in Recipients, n \in Values :
           executeTokenTransfer(s, id, t, to, n) /\ Chain
InnerSucceeds == CallReturns(TRUE, NoData) /\ Chain
InnerFails == \E rd \in RevertDatas : CallReturns(FALSE, rd) /\ Chain
TransferDone == \E ok \in BOOLEAN : TransferReturns(ok) /\ Chain
BlockMined == NextBlock /\ Chain
ResultTaken == Returned /\ Chain

Next ==
    \/ Grant
    \/ Revoke
    \/ Execute
    \/ ExecuteToken
    \/ InnerSucceeds
    \/ InnerFails
    \/ TransferDone
    \/ ResultTaken
    \/ BlockMined

Spec == Init /\ [][Next]_vars

(***************************************************************************)
(* HypnosDemo, the target of the contract tests: the ledger with one        *)
(* capability template, any function of HypnosDemo without expiry, and the *)
(* demo's counter.                                                         *)
(***************************************************************************)
\* what a call of a function that returns one word hands back
Word == [length |-> 32, errorSelector |-> FALSE, decodes |-> FALSE, message |-> ""]

DemoGrant == Grantable(Alice, Demo, Wildcard, ZeroAddress, 0)
DemoValues == {0, Limit}

Unindexed == UNCHANGED <<stream, mirror, cursor, pass, single>>

\* the counter moved by the call and once more
IncrementedTwice(caller) == [counter |-> state.counter + 2, lastCaller |-> caller]

\* HypnosDemo.incrementCounter as a call by `caller`
Incremented(caller) == [counter |-> state.counter + 1, lastCaller |-> caller]

\* the inner call of a gated call runs HypnosDemo.incrementCounter: the
\* function is not payable, a call that carries value reverts with no data
incrementCounter ==
    /\ frame.kind = "call"
    /\ frame.target = Demo
    /\ frame.selector = SelIncrement
    /\ IF frame.value = 0
       THEN /\ state' = Incremented(HypnosExecutor)
            /\ CallReturns(TRUE, Word)
       ELSE /\ state' = state
            /\ CallReturns(FALSE, NoData)
    /\ Unindexed

\* incrementCounter called by an account itself, not through the ledger
DirectIncrement ==
    /\ TopLevel
    /\ result = NoResult
    /\ state.counter < MaxEvents
    /\ \E caller \in Callers : state' = Incremented(caller)
    /\ UNCHANGED <<permissions, userPermissions, executions, executionHistory, events,
                   timestamp, blockNumber, status, frame, result>>
    /\ Unindexed

GrantOnDemo ==
    \E s \in Callers : grantPermission(s, DemoGrant) /\ Unindexed /\ UNCHANGED state
RevokeOnDemo ==
    \E s \in Callers, id \in KnownIds :
        revokePermission(s, id) /\ Unindexed /\ UNCHANGED state
ExecuteOnDemo ==
    \E s \in Callers, id \in KnownIds, v \in DemoValues :
        executeWithPermission(s, id, Demo, <<SelIncrement>>, v)
          /\ Unindexed /\ UNCHANGED state
DemoBlockMined == NextBlock /\ Unindexed /\ UNCHANGED state
DemoResultTaken == Returned /\ Unindexed /\ UNCHANGED state

DemoNext ==
    \/ GrantOnDemo
    \/ RevokeOnDemo
    \/ ExecuteOnDemo
    \/ incrementCounter
    \/ DirectIncrement
    \/ DemoBlockMined
    \/ DemoResultTaken

DemoSpec == Init /\ [][DemoNext]_vars

(***************************************************************************)
(* The asset-transfer path on its own: the ledger with one capability      *)
(* template whose generic limits differ from its token limits (a function  *)
(* of HypnosDemo with no value allowed, and a token allowance).            *)
(***************************************************************************)
TokenGrant ==
    [executor |-> Alice, target |-> Demo, selector |-> SelIncrement,
     maxValue |-> 0, maxTokenAmount |-> Limit, tokenAddress |-> Token,
     expiry |-> Expiry]

GrantForTransfer ==
    \E s \in Senders : grantPermission(s, TokenGrant) /\ Unindexed /\ UNCHANGED state
RevokeForTransfer ==
    \E s \in Senders, id \in KnownIds :
        revokePermission(s, id) /\ Unindexed /\ UNCHANGED state
TransferOnGrant ==
    \E s \in Senders, id \in KnownIds, t \in {ZeroAddress, Token, Demo},
       to \in Recipients, n \in Values :
        executeTokenTransfer(s, id, t, to, n) /\ Unindexed /\ UNCHANGED state
TransferEnds == \E ok \in BOOLEAN : TransferReturns(ok) /\ Unindexed /\ UNCHANGED state
TokenBlockMined == NextBlock /\ Unindexed /\ UNCHANGED state
TokenResultTaken == Returned /\ Unindexed /\ UNCHANGED state

TokenNext ==
    \/ GrantForTransfer
    \/ RevokeForTransfer
    \/ TransferOnGrant
    \/ TransferEnds
    \/ TokenBlockMined
    \/ TokenResultTaken

TokenSpec == Init /\ [][TokenNext]_vars

(***************************************************************************)
(* The indexer: the handlers of indexer/src/mapping.ts (Envio) and of      *)
(* indexer/src/HypnosExecutor.ts (graph-ts), each with its own store.      *)
(*                                                                         *)
(* An address of the model is its lower-case hex string.  Envio hands the  *)
(* handlers checksummed strings; graph-ts hands them bytes, which          *)
(* toHexString() writes in lower case.  A bytes32 id is its hex string on  *)
(* both sides.                                                             *)
(***************************************************************************)
\* the mixed-case rendering of an address in event.args
Checksum(address) == [mixedCase |-> address]

\* String.prototype.toLowerCase on a rendered address
toLowerCase(str) == str.mixedCase

\* Address.toHexString / Bytes.toHexString
toHexString(bytes) == bytes

\* an optional column: unset, or holding one value
Undefined == << >>
Some(v) == <<v>>

\* an upsert under a key that no earlier row has
SetFresh(table, row) == Put(table, <<row.id, Cardinality(DOMAIN table)>>, row)

\* context.Entity.set(row): the row of this id is replaced, or inserted
Set(table, row) == Put(table, row.id, row)

\* entity.save() of graph-ts: store.set writes the fields the entity holds
\* over those of the stored row of this id, and keeps the others
save(table, entity) ==
    Put(table, entity.id,
        IF entity.id \in DOMAIN table
        THEN [f \in DOMAIN table[entity.id] \cup DOMAIN entity |->
                IF f \in DOMAIN entity THEN entity[f] ELSE table[entity.id][f]]
        ELSE entity)

\* the id that names the transaction alone
EventIdOfTransaction(e) == <<e.transactionHash, 0>>

\* `${event.transaction.hash}-${event.logIndex}`
EventId(e) == <<e.transactionHash, e.logIndex>>

\* ---- mapping.ts, HypnosExecutor.PermissionGranted.handler
EnvioPermissionGranted(store, e) ==
    LET a == e.log
        id == a.permissionId
    IN [store EXCEPT
          !.Permission = Set(@,
              [id |-> id, user |-> toLowerCase(Checksum(a.user)),
               target |-> toLowerCase(Checksum(a.target)), selector |-> a.selector,
               maxValue |-> a.maxValue, maxTokenAmount |-> a.maxTokenAmount,
               tokenAddress |-> toLowerCase(Checksum(a.tokenAddress)),
               expiry |-> a.expiry, active |-> TRUE,
               grantedAt |-> e.timestamp, grantedAtBlock |-> e.blockNumber,
               revokedAt |-> Undefined, revokedAtBlock |-> Undefined]),
          !.PermissionGrantedEvent = Set(@,
              [id |-> EventId(e), user |-> toLowerCase(Checksum(a.user)),
               permissionId |-> id, target |-> toLowerCase(Checksum(a.target)),
               selector |-> a.selector, maxValue |-> a.maxValue,
               maxTokenAmount |-> a.maxTokenAmount,
               tokenAddress |-> toLowerCase(Checksum(a.tokenAddress)),
               expiry |-> a.expiry, timestamp |-> e.timestamp,
               blockNumber |-> e.blockNumber, transactionHash |-> e.transactionHash])]

\* the handler that writes the row whether or not one is stored
EnvioPermissionRevokedUpsert(store, e) ==
    [store EXCEPT
       !.Permission = Set(@,
           [id |-> e.log.permissionId, active |-> FALSE,
            revokedAt |-> Some(e.timestamp), revokedAtBlock |-> Some(e.blockNumber)]),
       !.PermissionRevokedEvent = Set(@,
           [id |-> EventId(e), user |-> toLowerCase(Checksum(e.log.user)),
            permissionId |-> e.log.permissionId, timestamp |-> e.timestamp,
            blockNumber |-> e.blockNumber, transactionHash |-> e.transactionHash])]

\* ---- mapping.ts, HypnosExecutor.PermissionRevoked.handler
EnvioPermissionRevoked(store, e) ==
    LET a == e.log
        id == a.permissionId
        updated == IF id \in DOMAIN store.Permission
                   THEN Set(store.Permission,
                            [store.Permission[id] EXCEPT
                               !.active = FALSE,
                               !.revokedAt = Some(e.timestamp),
                               !.revokedAtBlock = Some(e.blockNumber)])
                   ELSE store.Permission
    IN [store EXCEPT
          !.Permission = updated,
          !.PermissionRevokedEvent = Set(@,
              [id |-> EventId(e), user |-> toLowerCase(Checksum(a.user)),
               permissionId |-> id, timestamp |-> e.timestamp,
               blockNumber |-> e.blockNumber, transactionHash |-> e.transactionHash])]

\* the handler that also stores a Permission row for the capability it names
EnvioPermissionUsedMarking(store, e) ==
    [store EXCEPT
       !.Permission = Set(@, [id |-> e.log.permissionId,
                              user |-> toLowerCase(Checksum(e.log.user)),
                              active |-> TRUE]),
       !.PermissionUsedEvent = Set(@,
           [id |-> EventId(e), user |-> toLowerCase(Checksum(e.log.user)),
            permissionId |-> e.log.permissionId, executionId |-> e.log.executionId])]

\* ---- mapping.ts, HypnosExecutor.PermissionUsed.handler
EnvioPermissionUsed(store, e) ==
    LET a == e.log
    IN [store EXCEPT
          !.PermissionUsedEvent = Set(@,
              [id |-> EventId(e), user |-> toLowerCase(Checksum(a.user)),
               permissionId |-> a.permissionId, executionId |-> a.executionId,
               target |-> toLowerCase(Checksum(a.target)), selector |-> a.selector,
               value |-> a.value, success |-> a.success, timestamp |-> e.timestamp,
               blockNumber |-> e.blockNumber, transactionHash |-> e.transactionHash])]

\* ---- mapping.ts, HypnosExecutor.ExecutionRecorded.handler
EnvioExecutionRecorded(store, e) ==
    LET a == e.log
    IN [store EXCEPT
          !.Execution = Set(@,
              [id |-> a.executionId, executor |-> toLowerCase(Checksum(a.executor)),
               target |-> toLowerCase(Checksum(a.target)), selector |-> a.selector,
               value |-> a.value, data |-> "", timestamp |-> e.timestamp,
               blockNumber |-> e.blockNumber, transactionHash |-> e.transactionHash,
               permission_id |-> a.permissionId, permissionId |-> a.permissionId,
               success |-> a.success, reason |-> a.reason])]

\* ---- HypnosExecutor.ts, handlePermissionGranted
handlePermissionGranted(store, e) ==
    LET permissionId == toHexString(e.log.permissionId)
        user == toHexString(e.log.user)
    IN [store EXCEPT
          !.Permission = save(@,
              [id |-> permissionId, user |-> user, active |-> TRUE,
               grantedAt |-> e.timestamp, grantedAtBlock |-> e.blockNumber]),
          !.PermissionGrantedEvent = save(@,
              [id |-> EventId(e), user |-> user, permissionId |-> permissionId,
               timestamp |-> e.timestamp, blockNumber |-> e.blockNumber,
               transactionHash |-> toHexString(e.transactionHash)])]

\* ---- HypnosExecutor.ts, handlePermissionRevoked
handlePermissionRevoked(store, e) ==
    LET permissionId == toHexString(e.log.permissionId)
        user == toHexString(e.log.user)
        \* Permission.load(permissionId), changed and saved when it is there
        updated == IF permissionId \in DOMAIN store.Permission
                   THEN save(store.Permission,
                             [id |-> permissionId, active |-> FALSE,
                              revokedAt |-> e.timestamp,
                              revokedAtBlock |-> e.blockNumber])
                   ELSE store.Permission
    IN [store EXCEPT
          !.Permission = updated,
          !.PermissionRevokedEvent = save(@,
              [id |-> EventId(e), user |-> user, permissionId |-> permissionId,
               timestamp |-> e.timestamp, blockNumber |-> e.blockNumber,
               transactionHash |-> toHexString(e.transactionHash)])]

\* ---- HypnosExecutor.ts, handlePermissionUsed
handlePermissionUsed(store, e) ==
    [store EXCEPT
       !.PermissionUsedEvent = save(@,
           [id |-> EventId(e), user |-> toHexString(e.log.user),
            permissionId |-> toHexString(e.log.permissionId),
            executionId |-> toHexString(e.log.executionId),
            timestamp |-> e.timestamp, blockNumber |-> e.blockNumber,
            transactionHash |-> toHexString(e.transactionHash)])]

\* ---- HypnosExecutor.ts, handleExecutionRecorded
handleExecutionRecorded(store, e) ==
    LET executionId == toHexString(e.log.executionId)
        permissionId == toHexString(e.log.permissionId)
    IN IF permissionId \notin DOMAIN store.Permission
       THEN store
       ELSE [store EXCEPT
               !.Execution = save(@,
                   [id |-> executionId, executor |-> toHexString(e.log.executor),
                    permission |-> store.Permission[permissionId].id,
                    permissionId |-> permissionId, timestamp |-> e.timestamp,
                    blockNumber |-> e.blockNumber,
                    transactionHash |-> toHexString(e.transactionHash)])]

\* the Envio runtime calls the handler registered for the event
EnvioHandle(store, e) ==
    CASE e.log.event = "PermissionGranted" -> EnvioPermissionGranted(store, e)
      [] e.log.event = "PermissionRevoked" -> EnvioPermissionRevoked(store, e)
      [] e.log.event = "PermissionUsed" -> EnvioPermissionUsed(store, e)
      [] e.log.event = "ExecutionRecorded" -> EnvioExecutionRecorded(store, e)
      [] OTHER -> store

\* mapping.ts, handleHypnosExecutor: the route by event name
handleHypnosExecutor(store, e) ==
    IF e.log.event = "PermissionGranted" THEN handlePermissionGranted(store, e)
    ELSE IF e.log.event = "PermissionRevoked" THEN handlePermissionRevoked(store, e)
    ELSE IF e.log.event = "PermissionUsed" THEN handlePermissionUsed(store, e)
    ELSE IF e.log.event = "ExecutionRecorded" THEN handleExecutionRecorded(store, e)
    ELSE store

\* one event handled by both handler sets
Handle(m, e) ==
    [envio |-> EnvioHandle(m.envio, e), graph |-> handleHypnosExecutor(m.graph, e)]

\* the mirror after the first n events of a stream, handled in order
RECURSIVE Reconcile(_, _, _)
Reconcile(m, s, n) == IF n = 0 THEN m ELSE Handle(Reconcile(m, s, n - 1), s[n])

\* the indexer is between two transactions of the chain
Settled == TopLevel /\ result = NoResult

\* the indexer catches up: every event of the stream is handled, in the
\* order of the log
Index ==
    /\ pass = 1
    /\ Settled
    /\ cursor = 0
    /\ single = 0
    /\ stream # << >>
    /\ mirror' = Reconcile(mirror, stream, Len(stream))
    /\ cursor' = Len(stream)
    /\ UNCHANGED <<permissions, userPermissions, executions, executionHistory, events,
                   timestamp, blockNumber, status, frame, result, stream, pass,
                   single, state>>

\* the indexer is fed the whole stream again from its first event, on the
\* stores as the first pass has left them
Replay ==
    /\ pass = 1
    /\ cursor > 0
    /\ cursor = Len(stream)
    /\ mirror' = Reconcile(mirror, stream, Len(stream))
    /\ pass' = 2
    /\ UNCHANGED <<permissions, userPermissions, executions, executionHistory, events,
                   timestamp, blockNumber, status, frame, result, stream, cursor,
                   single, state>>

\* One event of the stream reaches the indexer on its own, after the last
\* block followed: before anything else was handled (out of its place in the
\* log), or once more after the whole stream was handled (a redelivery).
Deliver(i) ==
    /\ pass = 1
    /\ Settled
    /\ timestamp = LastTime
    /\ single = 0
    /\ cursor \in {0, Len(stream)}
    /\ mirror' = Handle(mirror, stream[i])
    /\ single' = i
    /\ UNCHANGED <<permissions, userPermissions, executions, executionHistory, events,
                   timestamp, blockNumber, status, frame, result, stream, cursor,
                   pass, state>>

Redeliver == \E i \in DOMAIN stream : Deliver(i)

MirrorInit ==
    /\ Deployed
    /\ pass = 1

MirrorNext ==
    \/ Next
    \/ Index
    \/ Replay

\* the ledger with an indexer attached
MirrorSpec == MirrorInit /\ [][MirrorNext]_vars

DeliveryNext ==
    \/ Next
    \/ Index
    \/ Redeliver

\* the ledger with an indexer that is handed single events
DeliverySpec == MirrorInit /\ [][DeliveryNext]_vars

(***************************************************************************)
(* Properties                                                              *)
(***************************************************************************)
NotFound == "HypnosExecutor: permission not found"
Inactive == "HypnosExecutor: permission inactive"
TargetMismatch == "HypnosExecutor: target mismatch"
Expired == "HypnosExecutor: permission expired"
SelectorMismatch == "HypnosExecutor: selector mismatch"
ValueExceeded == "HypnosExecutor: value exceeds limit"

\* the capability a gated call in progress was let through on, as it stood
\* when the target was invoked
FramePermission == getPermission(frame.saved.permissions, frame.sender, frame.permissionId)

\* the last call was a top-level executeWithPermission that a require rejected
GateRejected ==
    /\ TopLevel
    /\ result.op = "executeWithPermission"
    /\ result.status \notin {Ok, ReentrantCall, "reverted"}

\* the capability the rejected call named (a rejected call changes nothing)
RejectedPermission == getPermission(permissions, result.sender, result.permissionId)

\* C1: whenever executeWithPermission invokes the target, the caller holds
\* under the given id a capability that is at that moment active, on the
\* call's target, not expired, for the payload's selector (or any), and with
\* maxValue >= the value sent.
C1_GateSafety ==
    frame.kind = "call" =>
        /\ FramePermission.target # ZeroAddress
        /\ FramePermission.active
        /\ FramePermission.target = frame.target
        /\ (FramePermission.expiry = 0 \/ FramePermission.expiry >= timestamp)
        /\ (FramePermission.selector = Wildcard
            \/ FramePermission.selector = bytes4(frame.data))
        /\ FramePermission.maxValue >= frame.value

\* a target is being invoked on a capability bound to one selector, in the
\* last second of its life
C1_Witness ==
    /\ frame.kind = "call"
    /\ FramePermission.selector = SelIncrement
    /\ FramePermission.expiry = timestamp

\* the six preconditions in the documented order, each with whether the call
\* violates it
Preconditions(perm, target, data, value, now) ==
    << <<NotFound, perm.target = ZeroAddress>>,
       <<Inactive, ~perm.active>>,
       <<TargetMismatch, perm.target # target>>,
       <<Expired, perm.expiry # 0 /\ perm.expiry < now>>,
       <<SelectorMismatch, perm.selector # Wildcard /\ perm.selector # bytes4(data)>>,
       <<ValueExceeded, value > perm.maxValue>> >>

ViolatedAt(perm, target, data, value, now) ==
    {i \in 1 .. 6 : Preconditions(perm, target, data, value, now)[i][2]}

FirstViolated(perm, target, data, value, now) ==
    LET v == ViolatedAt(perm, target, data, value, now)
        first == CHOOSE i \in v : \A j \in v : i <= j
    IN Preconditions(perm, target, data, value, now)[first][1]

\* C2: a rejected executeWithPermission reports the first violated
\* precondition in the order NotFound, Inactive, TargetMismatch, Expired,
\* SelectorMismatch, ValueExceeded; the six failures are distinct.
C2_CheckOrder ==
    /\ Cardinality({NotFound, Inactive, TargetMismatch, Expired, SelectorMismatch,
                    ValueExceeded}) = 6
    /\ GateRejected =>
        /\ ViolatedAt(RejectedPermission, result.target, result.data, result.value,
                      timestamp) # {}
        /\ result.status = FirstViolated(RejectedPermission, result.target, result.data,
                                         result.value, timestamp)

\* a call that is revoked, on the wrong target, expired, on the wrong selector
\* and over the value limit all at once
C2_Witness ==
    /\ GateRejected
    /\ ViolatedAt(RejectedPermission, result.target, result.data, result.value,
                  timestamp) = {2, 3, 4, 5, 6}

\* the log holds a PermissionRevoked event of this grantee for this id
Revoked(log, user, permissionId) ==
    \E i \in DOMAIN log :
        /\ log[i].event = "PermissionRevoked"
        /\ log[i].user = user
        /\ log[i].permissionId = permissionId

\* how many events of one kind the log holds
CountEvents(log, kind) == Cardinality({i \in DOMAIN log : log[i].event = kind})

\* C3 (as claimed): once revokePermission(id) has succeeded, every later
\* executeWithPermission of the grantee on that id fails with "permission
\* inactive", whatever happened in between: no such call reaches the target,
\* and a rejected one is rejected as inactive.
C3_RevokedNeverExecutes ==
    /\ frame.kind = "call" =>
           ~Revoked(frame.saved.events, frame.sender, frame.permissionId)
    /\ (GateRejected /\ Revoked(events, result.sender, result.permissionId)) =>
           result.status = Inactive

\* the case of C4: the capability exists, is active, is on the call's target
\* and has a non-zero expiry that the block time has reached (or passed)
ExpiryReached(perm, target, now) ==
    /\ perm.target # ZeroAddress
    /\ perm.active
    /\ perm.target = target
    /\ perm.expiry # 0
    /\ now >= perm.expiry

ExpiryPassed(perm, target, now) ==
    /\ ExpiryReached(perm, target, now)
    /\ now > perm.expiry

\* C4 (as claimed): a capability with non-zero expiry E, active and on the
\* call's target, fails executeWithPermission with "permission expired" at
\* every time t >= E, t == E included.
C4_ExpiredFromExpiry ==
    /\ frame.kind = "call" => ~ExpiryReached(FramePermission, frame.target, timestamp)
    /\ (GateRejected /\ ExpiryReached(RejectedPermission, result.target, timestamp)) =>
           result.status = Expired

\* C4 (amended): a capability with non-zero expiry E, active and on the
\* call's target, fails a top-level executeWithPermission with "permission
\* expired" at every time t > E; at t == E the expiry check lets it pass.
C4_ExpiredAfterExpiry ==
    /\ frame.kind = "call" => ~ExpiryPassed(FramePermission, frame.target, timestamp)
    /\ (GateRejected /\ ExpiryPassed(RejectedPermission, result.target, timestamp)) =>
           result.status = Expired

\* a call rejected as expired one second after the expiry, and nothing else
\* wrong with it
C4_Witness ==
    /\ GateRejected
    /\ ExpiryPassed(RejectedPermission, result.target, timestamp)
    /\ ViolatedAt(RejectedPermission, result.target, result.data, result.value,
                  timestamp) = {4}
    /\ result.status = Expired

\* C5 (as claimed): once a stored capability's active flag is false, it is
\* false after every further transaction.
C5_RevocationTerminal ==
    [][(TopLevel /\ TopLevel') =>
         \A u \in Callers : \A id \in DOMAIN permissions[u] :
             ~permissions[u][id].active => ~getPermission(permissions', u, id).active]_vars

\* C6 (as claimed): every executeWithPermission that passed the gate ends
\* with exactly one more execution record, one more ExecutionRecorded event
\* and one more PermissionUsed event than there were when it started.
C6_OneRecordPerGatedCall ==
    [][(frame.kind = "call" /\ frame'.kind = "none") =>
         /\ Len(executionHistory') = Len(frame.saved.executionHistory) + 1
         /\ frame.executionId \in DOMAIN executions'
         /\ CountEvents(events', "ExecutionRecorded")
              = CountEvents(frame.saved.events, "ExecutionRecorded") + 1
         /\ CountEvents(events', "PermissionUsed")
              = CountEvents(frame.saved.events, "PermissionUsed") + 1]_vars

\* every precondition before the value limit holds
BeforeValueCheck(perm, target, data, now) ==
    /\ perm.target # ZeroAddress
    /\ perm.active
    /\ perm.target = target
    /\ (perm.expiry = 0 \/ perm.expiry >= now)
    /\ (perm.selector = Wildcard \/ perm.selector = bytes4(data))

\* C7: an executeWithPermission with value > maxValue, every earlier check
\* passing, never invokes the target; it fails with "value exceeds limit" and
\* leaves the records, the execution count, the capabilities and the log as
\* they were.
C7_ValueExceeded ==
    [][/\ (frame.kind = "none" /\ frame'.kind = "call") =>
             frame'.value <= getPermission(permissions, frame'.sender,
                                           frame'.permissionId).maxValue
       /\ (/\ TopLevel
           /\ result = NoResult
           /\ result'.op = "executeWithPermission"
           /\ BeforeValueCheck(getPermission(permissions, result'.sender,
                                             result'.permissionId),
                               result'.target, result'.data, timestamp)
           /\ result'.value > getPermission(permissions, result'.sender,
                                            result'.permissionId).maxValue) =>
             /\ result'.status = ValueExceeded
             /\ UNCHANGED <<permissions, userPermissions, executions,
                            executionHistory, events, status, frame>>]_vars

\* a call rejected for its value alone
C7_Witness ==
    /\ GateRejected
    /\ BeforeValueCheck(RejectedPermission, result.target, result.data, timestamp)
    /\ result.value > RejectedPermission.maxValue
    /\ result.status = ValueExceeded

\* C8 (as claimed): when the inner call is over the outer call completes; the
\* returned flag is the one in the record and in both events, and the
\* recorded reason is "success" exactly when the inner call succeeded.
C8_InnerFailureRecorded ==
    [][(frame.kind = "call" /\ frame'.kind = "none") =>
         /\ result'.status = Ok
         /\ frame.executionId \in DOMAIN executions'
         /\ executions'[frame.executionId].success = result'.success
         /\ events'[Len(events') - 1].event = "ExecutionRecorded"
         /\ events'[Len(events') - 1].success = result'.success
         /\ events'[Len(events')].event = "PermissionUsed"
         /\ events'[Len(events')].success = result'.success
         /\ (executions'[frame.executionId].reason = "success") <=> result'.success]_vars

\* C9: while a gated call is in progress, a call of executeWithPermission or
\* executeTokenTransfer by the invoked contract is rejected by the guard and
\* changes nothing; no step inside the call writes an execution record, a
\* history entry, an ExecutionRecorded or a PermissionUsed event.
C9_NoNestedExecution ==
    [][(frame.kind # "none" /\ frame'.kind # "none") =>
         /\ executions' = executions
         /\ executionHistory' = executionHistory
         /\ CountEvents(events', "ExecutionRecorded") = CountEvents(events, "ExecutionRecorded")
         /\ CountEvents(events', "PermissionUsed") = CountEvents(events, "PermissionUsed")
         /\ (result = NoResult
             /\ result'.op \in {"executeWithPermission", "executeTokenTransfer"}) =>
               /\ result'.status = ReentrantCall
               /\ UNCHANGED <<permissions, userPermissions, events, status, frame>>]_vars

\* the invoked contract called executeWithPermission on a capability of its
\* own that the gate would let through, and was turned away by the guard
C9_Witness ==
    /\ frame.kind = "call"
    /\ result.op = "executeWithPermission"
    /\ result.status = ReentrantCall
    /\ result.sender = frame.target
    /\ GateError(getPermission(permissions, result.sender, result.permissionId),
                 result.target, result.data, result.value, timestamp) = Ok

\* C10 (as claimed): any two successful grants return different ids.
C10_UniqueIds ==
    \A i, j \in DOMAIN events :
        (/\ i < j
         /\ events[i].event = "PermissionGranted"
         /\ events[j].event = "PermissionGranted") =>
            events[i].permissionId # events[j].permissionId

\* some other principal holds a capability under this id, and it is active
HeldActiveByAnother(sender, permissionId) ==
    \E u \in Callers :
        /\ u # sender
        /\ permissionId \in DOMAIN permissions[u]
        /\ permissions[u][permissionId].active

\* C11: revokePermission(id) by a principal that holds no capability under
\* that id fails with "permission not found", changes no capability (the
\* grantee's capability stays as it is) and emits no event.
C11_RevokeByStranger ==
    [][(/\ result = NoResult
        /\ result'.op = "revokePermission"
        /\ getPermission(permissions, result'.sender, result'.permissionId)
             = ZeroPermission) =>
         /\ result'.status = NotFound
         /\ UNCHANGED <<permissions, userPermissions, executions, executionHistory,
                        events, status, frame>>]_vars

\* a principal was refused the revocation of an id under which somebody
\* else holds an active capability
C11_Witness ==
    /\ result.op = "revokePermission"
    /\ result.status = NotFound
    /\ HeldActiveByAnother(result.sender, result.permissionId)

\* C12 (as claimed): a second revokePermission(id) by the grantee on an
\* already revoked capability succeeds, leaves the ledger as it was and emits
\* no further PermissionRevoked event.
C12_SecondRevokeSilent ==
    [][(/\ result = NoResult
        /\ result'.op = "revokePermission"
        /\ getPermission(permissions, result'.sender, result'.permissionId).target
             # ZeroAddress
        /\ ~getPermission(permissions, result'.sender, result'.permissionId).active) =>
         /\ result'.status = Ok
         /\ UNCHANGED <<permissions, userPermissions, executions, executionHistory,
                        events>>]_vars

InvalidTarget == "HypnosExecutor: invalid target"
ExpiredGrant == "HypnosExecutor: expired"

\* C13: grantPermission fails with "invalid target" when the target is the
\* zero address, and with "expired" when the target is set and the expiry is
\* non-zero and not after the block time; a failed grant stores nothing,
\* leaves every capability list and the log as they were.  Every other grant
\* succeeds, whoever calls.
C13_GrantErrors ==
    [][(result = NoResult /\ result'.op = "grantPermission") =>
         /\ result'.args.target = ZeroAddress => result'.status = InvalidTarget
         /\ (/\ result'.args.target # ZeroAddress
             /\ result'.args.expiry # 0
             /\ result'.args.expiry <= timestamp) => result'.status = ExpiredGrant
         /\ (/\ result'.args.target # ZeroAddress
             /\ (result'.args.expiry = 0 \/ result'.args.expiry > timestamp)) =>
               result'.status = Ok
         /\ result'.status # Ok =>
               UNCHANGED <<permissions, userPermissions, executions, executionHistory,
                           events, status, frame>>]_vars

\* a grant on the zero address whose expiry has also passed was refused for
\* its target
C13_Witness ==
    /\ result.op = "grantPermission"
    /\ result.args.target = ZeroAddress
    /\ result.args.expiry # 0
    /\ result.args.expiry <= timestamp
    /\ result.status = InvalidTarget

\* C14: after a successful grantPermission returning id, the grantee's entry
\* under id holds exactly the granted target, selector, maxValue,
\* maxTokenAmount, tokenAddress and expiry with active = true, id is in the
\* grantee's list, and exactly one event was appended: a PermissionGranted
\* carrying the grantee, the id and the same fields.
C14_GrantStores ==
    [][(result = NoResult /\ result'.op = "grantPermission" /\ result'.status = Ok) =>
         LET a == result'.args
             id == result'.permissionId
             perm == getPermission(permissions', a.executor, id)
         IN /\ perm.target = a.target
            /\ perm.selector = a.selector
            /\ perm.maxValue = a.maxValue
            /\ perm.maxTokenAmount = a.maxTokenAmount
            /\ perm.tokenAddress = a.tokenAddress
            /\ perm.expiry = a.expiry
            /\ perm.active
            /\ \E i \in DOMAIN userPermissions'[a.executor] :
                   userPermissions'[a.executor][i] = id
            /\ Len(events') = Len(events) + 1
            /\ SubSeq(events', 1, Len(events)) = events
            /\ events'[Len(events')] =
                 [event |-> "PermissionGranted", user |-> a.executor,
                  permissionId |-> id, target |-> a.target, selector |-> a.selector,
                  maxValue |-> a.maxValue, maxTokenAmount |-> a.maxTokenAmount,
                  tokenAddress |-> a.tokenAddress, expiry |-> a.expiry]]_vars

\* a capability with an expiry and a token allowance was granted
C14_Witness ==
    /\ result.op = "grantPermission"
    /\ result.status = Ok
    /\ result.args.expiry # 0
    /\ result.args.tokenAddress # ZeroAddress
    /\ getPermission(permissions, result.args.executor, result.permissionId).active
    /\ events # << >>
    /\ events[Len(events)].event = "PermissionGranted"
    /\ events[Len(events)].permissionId = result.permissionId

\* C15: after a successful revokePermission(id) by the grantee the entry
\* under id is inactive with its target, selector, limits, token and expiry
\* as before; every other capability, every capability list, every execution
\* record and the execution count are as before.
C15_RevokeFrame ==
    [][(result = NoResult /\ result'.op = "revokePermission" /\ result'.status = Ok) =>
         LET s == result'.sender
             id == result'.permissionId
             before == getPermission(permissions, s, id)
             after == getPermission(permissions', s, id)
         IN /\ ~after.active
            /\ after.target = before.target
            /\ after.selector = before.selector
            /\ after.maxValue = before.maxValue
            /\ after.maxTokenAmount = before.maxTokenAmount
            /\ after.tokenAddress = before.tokenAddress
            /\ after.expiry = before.expiry
            /\ DOMAIN permissions' = DOMAIN permissions
            /\ \A u \in DOMAIN permissions :
                   /\ DOMAIN permissions'[u] = DOMAIN permissions[u]
                   /\ \A other \in DOMAIN permissions[u] :
                          (u # s \/ other # id) =>
                              permissions'[u][other] = permissions[u][other]
            /\ UNCHANGED <<userPermissions, executions, executionHistory>>]_vars

\* a grantee has revoked a capability of its own while another capability is
\* stored and active
C15_Witness ==
    /\ result.op = "revokePermission"
    /\ result.status = Ok
    /\ getPermission(permissions, result.sender, result.permissionId).target # ZeroAddress
    /\ ~getPermission(permissions, result.sender, result.permissionId).active
    /\ events[Len(events)] = PermissionRevoked(result.sender, result.permissionId)
    /\ \E u \in Callers : \E other \in DOMAIN permissions[u] :
           other # result.permissionId /\ permissions[u][other].active

\* the ledger as it stood when the running top-level call was made
BeforeCall == IF TopLevel THEN Ledger ELSE frame.saved

\* C16: when the token transfer inside executeTokenTransfer fails the whole
\* call fails: no execution record is written, the execution count is as it
\* was, neither ExecutionRecorded nor PermissionUsed is emitted, and storage
\* and log are those of before the call.
C16_TransferFailure ==
    [][(/\ result = NoResult
        /\ result'.op = "executeTokenTransfer"
        /\ result'.status = TransferFailed) =>
         /\ executions' = BeforeCall.executions
         /\ executionHistory' = BeforeCall.executionHistory
         /\ Len(executionHistory') = Len(BeforeCall.executionHistory)
         /\ CountEvents(events', "ExecutionRecorded")
              = CountEvents(BeforeCall.events, "ExecutionRecorded")
         /\ CountEvents(events', "PermissionUsed")
              = CountEvents(BeforeCall.events, "PermissionUsed")
         /\ permissions' = BeforeCall.permissions
         /\ userPermissions' = BeforeCall.userPermissions
         /\ events' = BeforeCall.events
         /\ status' = NOT_ENTERED
         /\ frame' = NoFrame]_vars

\* a transfer that passed the gate on the capability's token failed in the
\* token contract
C16_Witness ==
    /\ result.op = "executeTokenTransfer"
    /\ result.status = TransferFailed
    /\ result.target = Token
    /\ TokenGateError(getPermission(permissions, result.sender, result.permissionId),
                      result.target, result.value, timestamp) = Ok

\* the sum of the amounts of the successful token transfers that the first n
\* events of the log report for one capability
RECURSIVE Transferred(_, _, _, _)
Transferred(log, n, user, permissionId) ==
    IF n = 0 THEN 0
    ELSE Transferred(log, n - 1, user, permissionId)
         + (IF /\ log[n].event = "PermissionUsed"
               /\ log[n].selector = SelTransfer
               /\ log[n].success
               /\ log[n].user = user
               /\ log[n].permissionId = permissionId
            THEN log[n].value ELSE 0)

\* C17 (as claimed): for every capability, the amounts of all successful
\* executeTokenTransfer calls made under it add up to at most its
\* maxTokenAmount.
C17_CumulativeTokenLimit ==
    TopLevel =>
        \A u \in Callers : \A id \in DOMAIN permissions[u] :
            Transferred(events, Len(events), u, id) <= permissions[u][id].maxTokenAmount

\* what getExecution(id) returns of a record, less the payload and the time
Observed(rec) ==
    [executor |-> rec.executor, target |-> rec.target, selector |-> rec.selector,
     value |-> rec.value, permissionId |-> rec.permissionId,
     success |-> rec.success, reason |-> rec.reason]

\* C18 (as claimed): once executions[id] is written, every later transaction,
\* a second identical call in the same block included, leaves its executor,
\* target, selector, value, permissionId, success and reason as they are.
C18_RecordsImmutable ==
    [][\A id \in DOMAIN executions :
           /\ id \in DOMAIN executions'
           /\ Observed(executions'[id]) = Observed(executions[id])]_vars

\* C19 (as claimed): the execution history holds every execution id at most
\* once, so getExecutionCount is the number of distinct execution records.
C19_NoDuplicateExecutionId ==
    /\ \A i, j \in DOMAIN executionHistory :
           i # j => executionHistory[i] # executionHistory[j]
    /\ getExecutionCount = Cardinality(DOMAIN executions)

\* the stream has been handled twice over, the second time on the stores the
\* first pass has left
ReplayedInFull == pass = 2 /\ cursor = Len(stream)

\* C20: for every event stream the ledger emits, handling the whole stream a
\* second time leaves every store of the indexer (Permission, Execution and
\* the three kinds of audit rows) as the single pass leaves it.
C20_ReplayIdempotent ==
    ReplayedInFull => mirror = Reconcile(EmptyMirror, stream, Len(stream))

\* a stream with a grant, a revocation and a run has been replayed in full:
\* the stores hold a revoked Permission row and an Execution row
C20_Witness ==
    /\ ReplayedInFull
    /\ \E id \in DOMAIN mirror.envio.Permission : ~mirror.envio.Permission[id].active
    /\ \E id \in DOMAIN mirror.graph.Permission : ~mirror.graph.Permission[id].active
    /\ mirror.envio.Execution # << >>
    /\ mirror.graph.Execution # << >>
    /\ mirror.envio.PermissionUsedEvent # << >>

\* the whole stream was handled in order and one of its events has then
\* reached the indexer a second time
Redelivered == cursor = Len(stream) /\ single # 0

\* C21 (as claimed): when an event that was handled already is delivered again
\* at a later position, the stores end as the in-order, exactly-once pass
\* leaves them; a Permission row that pass leaves revoked does not end active.
C21_RedeliveryConverges ==
    Redelivered =>
        LET once == Reconcile(EmptyMirror, stream, Len(stream))
        IN /\ mirror.envio = once.envio
           /\ \A id \in DOMAIN once.envio.Permission :
                  ~once.envio.Permission[id].active =>
                      ~mirror.envio.Permission[id].active

\* one event has reached an indexer that had handled nothing: no Permission
\* row is stored when its handler runs
InjectedFirst == cursor = 0 /\ single # 0

\* C22 (as claimed): an ExecutionRecorded event whose capability has no
\* Permission row is handled without creating an Execution row: the
\* Execution rows of both handler sets are as they were.
C22_OrphanExecutionDropped ==
    (InjectedFirst /\ stream[single].log.event = "ExecutionRecorded") =>
        /\ mirror.envio.Execution = EmptyMirror.envio.Execution
        /\ mirror.graph.Execution = EmptyMirror.graph.Execution

\* the columns of a row hold these values (a row without one of the columns
\* does not)
Holds(row, values) ==
    /\ DOMAIN values \subseteq DOMAIN row
    /\ \A f \in DOMAIN values : row[f] = values[f]

\* every capability and every execution record of the ledger has its row in
\* the store, with the same values, and the store has no other row
Refines(store) ==
    /\ \A u \in Callers : \A id \in DOMAIN permissions[u] :
           /\ id \in DOMAIN store.Permission
           /\ Holds(store.Permission[id],
                    [user |-> u, target |-> permissions[u][id].target,
                     selector |-> permissions[u][id].selector,
                     maxValue |-> permissions[u][id].maxValue,
                     maxTokenAmount |-> permissions[u][id].maxTokenAmount,
                     tokenAddress |-> permissions[u][id].tokenAddress,
                     expiry |-> permissions[u][id].expiry,
                     active |-> permissions[u][id].active])
    /\ \A id \in DOMAIN executions :
           /\ id \in DOMAIN store.Execution
           /\ Holds(store.Execution[id],
                    [executor |-> executions[id].executor,
                     target |-> executions[id].target,
                     selector |-> executions[id].selector,
                     value |-> executions[id].value,
                     permissionId |-> executions[id].permissionId,
                     success |-> executions[id].success,
                     reason |-> executions[id].reason])
    /\ DOMAIN store.Permission \subseteq KnownIds
    /\ DOMAIN store.Execution \subseteq DOMAIN executions

\* the indexer has handled the whole stream once, in the order of the log
CaughtUp == pass = 1 /\ cursor = Len(stream) /\ single = 0

\* C23 (as claimed): once all events the ledger has emitted are handled in
\* emission order, every capability has a Permission row with its grantee,
\* target, selector, limits, token, expiry and active flag, every execution
\* record has an Execution row with its caller, target, selector, value,
\* capability id, outcome and reason, and no other such row is stored.
C23_MirrorRefinesLedger ==
    CaughtUp => Refines(mirror.envio) /\ Refines(mirror.graph)

\* the store holds nothing but one PermissionRevokedEvent row, that of event e
OnlyRevokedAudit(store, e) ==
    /\ store.Permission = EmptyStore.Permission
    /\ store.Execution = EmptyStore.Execution
    /\ store.PermissionGrantedEvent = EmptyStore.PermissionGrantedEvent
    /\ store.PermissionUsedEvent = EmptyStore.PermissionUsedEvent
    /\ DOMAIN store.PermissionRevokedEvent = {<<e.transactionHash, e.logIndex>>}
    /\ \A k \in DOMAIN store.PermissionRevokedEvent :
           /\ store.PermissionRevokedEvent[k].permissionId = e.log.permissionId
           /\ store.PermissionRevokedEvent[k].user = e.log.user
           /\ store.PermissionRevokedEvent[k].timestamp = e.timestamp
           /\ store.PermissionRevokedEvent[k].blockNumber = e.blockNumber
           /\ store.PermissionRevokedEvent[k].transactionHash = e.transactionHash

\* C24: a PermissionRevoked event for a capability without Permission row is
\* handled without failing: no Permission row is created, and the
\* PermissionRevokedEvent audit row of the event is inserted all the same.
C24_OrphanRevocation ==
    (InjectedFirst /\ stream[single].log.event = "PermissionRevoked") =>
        /\ OnlyRevokedAudit(mirror.envio, stream[single])
        /\ OnlyRevokedAudit(mirror.graph, stream[single])

\* the revocation of a capability reached an indexer that knew nothing of
\* the capability, and left its audit row
C24_Witness ==
    /\ InjectedFirst
    /\ stream[single].log.event = "PermissionRevoked"
    /\ mirror.envio.PermissionRevokedEvent # << >>
    /\ mirror.graph.PermissionRevokedEvent # << >>
    /\ stream[single].log.permissionId \notin DOMAIN mirror.envio.Permission

\* C25: handling a PermissionUsed event inserts its PermissionUsedEvent audit
\* row and nothing else: every Permission row, every Execution row and the
\* other audit rows of both handler sets are as they were.
C25_UsedOnlyAudits ==
    [][(single = 0 /\ single' # 0 /\ stream[single'].log.event = "PermissionUsed") =>
         /\ mirror'.envio.Permission = mirror.envio.Permission
         /\ mirror'.envio.Execution = mirror.envio.Execution
         /\ mirror'.envio.PermissionGrantedEvent = mirror.envio.PermissionGrantedEvent
         /\ mirror'.envio.PermissionRevokedEvent = mirror.envio.PermissionRevokedEvent
         /\ mirror'.graph.Permission = mirror.graph.Permission
         /\ mirror'.graph.Execution = mirror.graph.Execution
         /\ mirror'.graph.PermissionGrantedEvent = mirror.graph.PermissionGrantedEvent
         /\ mirror'.graph.PermissionRevokedEvent = mirror.graph.PermissionRevokedEvent
         /\ <<stream[single'].transactionHash, stream[single'].logIndex>>
              \in DOMAIN mirror'.envio.PermissionUsedEvent
         /\ <<stream[single'].transactionHash, stream[single'].logIndex>>
              \in DOMAIN mirror'.graph.PermissionUsedEvent]_vars

\* a PermissionUsed event was handled on stores that hold Permission and
\* Execution rows
C25_Witness ==
    /\ single # 0
    /\ stream[single].log.event = "PermissionUsed"
    /\ cursor = Len(stream)
    /\ stream[single].log.permissionId \in DOMAIN mirror.envio.Permission
    /\ stream[single].log.executionId \in DOMAIN mirror.envio.Execution
    /\ mirror.envio.PermissionUsedEvent # << >>

\* the places in the stream of the events the indexer has been handed, some
\* of them more than once
Delivered == (1 .. cursor) \cup ({single} \ {0})

\* the (transaction, place in the transaction) pairs of the delivered events
\* of one type
Origins(type) ==
    {<<stream[i].transactionHash, stream[i].logIndex>> :
        i \in {j \in Delivered : stream[j].log.event = type}}

AuditUnique(store) ==
    /\ Cardinality(DOMAIN store.PermissionGrantedEvent)
         = Cardinality(Origins("PermissionGranted"))
    /\ Cardinality(DOMAIN store.PermissionRevokedEvent)
         = Cardinality(Origins("PermissionRevoked"))
    /\ Cardinality(DOMAIN store.PermissionUsedEvent)
         = Cardinality(Origins("PermissionUsed"))

AuditKept(before, after) ==
    /\ \A id \in DOMAIN before.PermissionGrantedEvent :
           /\ id \in DOMAIN after.PermissionGrantedEvent
           /\ after.PermissionGrantedEvent[id] = before.PermissionGrantedEvent[id]
    /\ \A id \in DOMAIN before.PermissionRevokedEvent :
           /\ id \in DOMAIN after.PermissionRevokedEvent
           /\ after.PermissionRevokedEvent[id] = before.PermissionRevokedEvent[id]
    /\ \A id \in DOMAIN before.PermissionUsedEvent :
           /\ id \in DOMAIN after.PermissionUsedEvent
           /\ after.PermissionUsedEvent[id] = before.PermissionUsedEvent[id]

\* C26: whatever has been delivered and however often, each audit table has
\* one row per distinct (transaction, place in the transaction) pair of the
\* delivered events of its type, and no delivery changes an audit row that
\* is already stored.
C26_AuditRowsUnique ==
    /\ [](AuditUnique(mirror.envio) /\ AuditUnique(mirror.graph))
    /\ [][AuditKept(mirror.envio, mirror'.envio) /\ AuditKept(mirror.graph, mirror'.graph)]_vars

\* an event was delivered a second time to stores that hold audit rows of
\* all three types
C26_Witness ==
    /\ cursor = Len(stream)
    /\ single # 0
    /\ mirror.envio.PermissionGrantedEvent # << >>
    /\ mirror.envio.PermissionRevokedEvent # << >>
    /\ mirror.envio.PermissionUsedEvent # << >>
    /\ stream[single].log.event \in {"PermissionGranted", "PermissionRevoked", "PermissionUsed"}

\* the reason the extraction is to give for the bytes a failed call returned
ReasonFor(returnData) ==
    IF returnData.length = 0 THEN "unknown error"
    ELSE IF returnData.errorSelector /\ returnData.decodes THEN returnData.message
    ELSE "execution reverted"

\* C27 (as claimed): whatever bytes a failed inner call returns, the outer call
\* completes and records "unknown error" for no data, the decoded message for
\* a well-formed Error(string), and "execution reverted" for everything else,
\* malformed Error(string) data included.
C27_ExtractionTotal ==
    [][(frame.kind = "call" /\ frame'.kind = "none") =>
         /\ result'.status = Ok
         /\ ~result'.success =>
              /\ frame.executionId \in DOMAIN executions'
              /\ executions'[frame.executionId].reason = ReasonFor(result'.returnData)]_vars

\* C28: the expiry check of executeWithPermission passes exactly when the
\* capability's expiry is 0 or not before the block time: a call that gets
\* through holds such a capability, a call rejected as expired does not, and
\* a call that passes the earlier checks with an expiry in the past is
\* rejected as expired.
C28_ExpiryCheck ==
    [][(frame.kind = "none" /\ result = NoResult) =>
         /\ frame'.kind = "call" =>
              LET perm == getPermission(permissions, frame'.sender, frame'.permissionId)
              IN perm.expiry = 0 \/ timestamp <= perm.expiry
         /\ (result' # NoResult /\ result'.op = "executeWithPermission") =>
              LET perm == getPermission(permissions, result'.sender, result'.permissionId)
              IN /\ result'.status = Expired =>
                      perm.expiry # 0 /\ perm.expiry < timestamp
                 /\ (/\ perm.target # ZeroAddress
                     /\ perm.active
                     /\ perm.target = result'.target
                     /\ perm.expiry # 0
                     /\ perm.expiry < timestamp) => result'.status = Expired]_vars

\* a call got through at the very second its capability expires
C28_Witness ==
    /\ frame.kind = "call"
    /\ LET perm == getPermission(permissions, frame.sender, frame.permissionId)
       IN perm.expiry # 0 /\ perm.expiry = timestamp

\* C29: an executeWithPermission that passes the gate starts one call of the
\* target with the payload and the value it was given; on a wildcard
\* capability on HypnosDemo, with an incrementCounter payload and no value,
\* the call succeeds, the counter ends one higher than it was, and the demo
\* has seen the ledger as its caller.
C29_TargetInvokedOnce ==
    [][/\ \A s \in Callers, id \in KnownIds, v \in DemoValues :
            (executeWithPermission(s, id, Demo, <<SelIncrement>>, v) /\ frame'.kind = "call") =>
               /\ frame.kind = "none"
               /\ frame'.target = Demo
               /\ frame'.data = <<SelIncrement>>
               /\ frame'.value = v
               /\ state' = state
       /\ (/\ frame.kind = "call"
           /\ frame'.kind = "none"
           /\ frame.target = Demo
           /\ frame.data = <<SelIncrement>>
           /\ frame.value = 0
           /\ getPermission(frame.saved.permissions, frame.sender,
                            frame.permissionId).selector = Wildcard) =>
              /\ result'.status = Ok
              /\ result'.success
              /\ executions'[frame.executionId].success
              /\ state'.counter = state.counter + 1
              /\ state'.lastCaller = HypnosExecutor]_vars

\* a gated incrementCounter has gone through on a counter that others had
\* moved before
C29_Witness ==
    /\ TopLevel
    /\ result # NoResult
    /\ result.op = "executeWithPermission"
    /\ result.status = Ok
    /\ result.success
    /\ result.call.target = Demo
    /\ result.call.value = 0
    /\ state.counter > 1
    /\ state.lastCaller = HypnosExecutor

\* C30 (as claimed): while the inner call of an executeWithPermission runs, no
\* call back into the ledger changes a capability, a capability list, a
\* record or the history, and the ledger that the execution record is
\* written on is the one the gate checks passed on.
C30_NoReentrantMutation ==
    [][/\ (frame.kind = "call" /\ frame'.kind = "call") =>
            /\ permissions' = permissions
            /\ userPermissions' = userPermissions
            /\ executions' = executions
            /\ executionHistory' = executionHistory
       /\ (frame.kind = "call" /\ frame'.kind = "none") =>
            /\ permissions = frame.saved.permissions
            /\ userPermissions = frame.saved.userPermissions
            /\ executions = frame.saved.executions
            /\ executionHistory = frame.saved.executionHistory]_vars

\* C31: the reentrancy guard is free whenever no gated call is running, so
\* no top-level executeWithPermission or executeTokenTransfer is turned down
\* by the guard, whatever way the calls before it ended.
C31_GuardReleased ==
    /\ TopLevel => status = NOT_ENTERED
    /\ (TopLevel /\ result # NoResult) => result.status # ReentrantCall

\* a gated call was let in after an earlier one whose inner call failed had
\* ended
C31_Witness ==
    /\ frame.kind \in {"call", "transfer"}
    /\ status = ENTERED
    /\ \E id \in DOMAIN executions : ~executions[id].success

\* the five preconditions of executeTokenTransfer, each with its failure
TransferConditions(perm, tokenAddress, amount, now) ==
    {[holds |-> perm.target # ZeroAddress,
      failure |-> "HypnosExecutor: permission not found"],
     [holds |-> perm.target # ZeroAddress /\ perm.active,
      failure |-> "HypnosExecutor: permission inactive"],
     [holds |-> perm.tokenAddress = tokenAddress,
      failure |-> "HypnosExecutor: token mismatch"],
     [holds |-> amount <= perm.maxTokenAmount,
      failure |-> "HypnosExecutor: amount exceeds limit"],
     [holds |-> perm.expiry = 0 \/ perm.expiry >= now,
      failure |-> "HypnosExecutor: permission expired"]}

\* C32: executeTokenTransfer starts the transfer only when the caller holds
\* an active capability under the id, the token is the capability's token,
\* the amount is within maxTokenAmount and the capability has not expired;
\* a call turned down fails with the failure of a condition that is
\* violated, one failure per condition, and with all five holding no call is
\* turned down by the gate, whatever the capability's target, selector and
\* maxValue.
C32_TransferGate ==
    [][(frame.kind = "none" /\ result = NoResult) =>
         /\ frame'.kind = "transfer" =>
              \A c \in TransferConditions(
                          getPermission(permissions, frame'.sender, frame'.permissionId),
                          frame'.target, frame'.amount, timestamp) : c.holds
         /\ (result' # NoResult /\ result'.op = "executeTokenTransfer") =>
              LET conds == TransferConditions(
                              getPermission(permissions, result'.sender,
                                            result'.permissionId),
                              result'.target, result'.value, timestamp)
              IN /\ Cardinality({c.failure : c \in conds}) = 5
                 /\ IF \A c \in conds : c.holds
                    THEN result'.status = TransferFailed
                    ELSE \E c \in conds : ~c.holds /\ result'.status = c.failure]_vars

\* a transfer was let through on a capability whose target is not the token,
\* whose selector is not transfer's and whose maxValue is below the amount
C32_Witness ==
    /\ frame.kind = "transfer"
    /\ LET perm == getPermission(permissions, frame.sender, frame.permissionId)
       IN /\ perm.target # frame.target
          /\ perm.selector # SelTransfer
          /\ perm.maxValue < frame.amount

\* the failures of the requires and of the guard
ValidationFailures ==
    {"HypnosExecutor: invalid target", "HypnosExecutor: expired",
     "HypnosExecutor: permission not found", "HypnosExecutor: permission inactive",
     "HypnosExecutor: target mismatch", "HypnosExecutor: permission expired",
     "HypnosExecutor: selector mismatch", "HypnosExecutor: value exceeds limit",
     "HypnosExecutor: token mismatch", "HypnosExecutor: amount exceeds limit",
     ReentrantCall}

\* C33: a grantPermission, revokePermission, executeWithPermission or
\* executeTokenTransfer that fails a require or is turned away by the guard
\* leaves capabilities, capability lists, records, history and log as they
\* were and starts no call of a target.
C33_FailureChangesNothing ==
    [][(result = NoResult /\ result' # NoResult /\ result'.status \in ValidationFailures) =>
         UNCHANGED <<permissions, userPermissions, executions, executionHistory,
                     events, status, frame>>]_vars

\* a call failed a require on a ledger that holds capabilities and records
C33_Witness ==
    /\ result # NoResult
    /\ result.status \in ValidationFailures \ {ReentrantCall}
    /\ executionHistory # << >>
    /\ \E u \in Callers : userPermissions[u] # << >>

\* executeWithPermission and executeTokenTransfer as whole calls: from the
\* ledger they were made on to the ledger they end on
EndsGatedCall == frame.kind \in {"call", "transfer"} /\ frame'.kind = "none"

\* C34 (as claimed): an executeWithPermission or an executeTokenTransfer,
\* passing or failing, on an expired capability or not, ends with every
\* stored capability, active flag included, and every capability list as
\* they were when the call was made.
C34_ExecutionKeepsCapabilities ==
    [][/\ (/\ result = NoResult
           /\ result' # NoResult
           /\ result'.op \in {"executeWithPermission", "executeTokenTransfer"}
           /\ frame.kind = "none") =>
            /\ permissions' = permissions
            /\ userPermissions' = userPermissions
       /\ EndsGatedCall =>
            /\ permissions' = frame.saved.permissions
            /\ userPermissions' = frame.saved.userPermissions]_vars

\* the sequence s with nothing removed and nothing moved, perhaps with more
\* at its end
Extends(t, s) == Len(s) <= Len(t) /\ \A i \in DOMAIN s : t[i] = s[i]

\* C35 (as claimed): no step removes or moves an entry of the execution
\* history; the count grows by exactly one with each executeWithPermission
\* that passed the gate and with each executeTokenTransfer that succeeds, and
\* a grant, a revocation or a failing call leaves the history as it was.
C35_HistoryAppendOnly ==
    [][/\ Extends(executionHistory', executionHistory)
       /\ (frame.kind = "call" /\ frame'.kind = "none") =>
            Len(executionHistory') = Len(executionHistory) + 1
       /\ (frame.kind = "transfer" /\ frame'.kind = "none" /\ result'.status = Ok) =>
            Len(executionHistory') = Len(executionHistory) + 1
       /\ (/\ result = NoResult
           /\ result' # NoResult
           /\ \/ result'.op \in {"grantPermission", "revokePermission"}
              \/ result'.status # Ok) =>
            executionHistory' = executionHistory]_vars

\* a record written by executeTokenTransfer: its selector is that of
\* transfer(address,uint256), which no payload of the generic path carries
TransferRecord(r) == r.selector = SelTransfer

\* C36: every execution record names a capability that is stored for the
\* record's executor, and the record's target is that capability's target
\* for a record of executeWithPermission and its token for a record of
\* executeTokenTransfer.
C36_RecordsResolve ==
    \A id \in DOMAIN executions :
        LET r == executions[id]
            perm == getPermission(permissions, r.executor, r.permissionId)
        IN /\ perm.target # ZeroAddress
           /\ r.target = IF TransferRecord(r) THEN perm.tokenAddress ELSE perm.target

\* the history holds the record of a token transfer made on a capability
\* whose target is not the token
C36_Witness ==
    \E id \in DOMAIN executions :
        /\ TransferRecord(executions[id])
        /\ getPermission(permissions, executions[id].executor,
                         executions[id].permissionId).target # executions[id].target

\* the ids of a capability list
Listed(u) == {userPermissions[u][i] : i \in DOMAIN userPermissions[u]}

\* C37 (as claimed): the capability list of every grantee holds exactly the
\* ids a capability is stored under for that grantee, each of them once.
C37_ListMatchesStore ==
    \A u \in Callers :
        /\ Listed(u) = DOMAIN permissions[u]
        /\ Cardinality(Listed(u)) = Len(userPermissions[u])

\* what the two events of a gated operation and its record agree on
EventsAgree(recorded, used, record) ==
    /\ recorded.event = "ExecutionRecorded"
    /\ used.event = "PermissionUsed"
    /\ used.executionId = recorded.executionId
    /\ used.permissionId = recorded.permissionId
    /\ used.user = recorded.executor
    /\ used.target = recorded.target
    /\ used.selector = recorded.selector
    /\ used.success = recorded.success
    /\ record.permissionId = recorded.permissionId
    /\ record.executor = recorded.executor
    /\ record.target = recorded.target
    /\ record.selector = recorded.selector
    /\ record.value = recorded.value
    /\ record.success = recorded.success

\* a gated operation comes to its end and is recorded
Completes == frame.kind \in {"call", "transfer"} /\ frame'.kind = "none" /\ result'.status = Ok

\* C38 (as claimed): a gated operation that completes emits ExecutionRecorded
\* and, right after it, PermissionUsed, and the two events and the stored
\* record agree on execution id, capability id, caller, target, selector,
\* value and success flag.
C38_EventsAgreeOnValue ==
    [][Completes =>
         /\ Len(events') >= 2
         /\ EventsAgree(events'[Len(events') - 1], events'[Len(events')],
                        executions'[frame.executionId])
         /\ events'[Len(events')].value = events'[Len(events') - 1].value]_vars

\* C38 (amended): a gated operation that completes emits ExecutionRecorded
\* and, right after it, PermissionUsed, and the two events and the stored
\* record agree on execution id, capability id, caller, target, selector and
\* success flag.  The record and ExecutionRecorded carry the same value; the
\* value of PermissionUsed is that value for executeWithPermission, and for
\* executeTokenTransfer it is the amount, with 0 in the other two.
C38_EventsAgree ==
    [][Completes =>
         /\ Len(events') >= 2
         /\ events'[Len(events') - 1].executionId = frame.executionId
         /\ EventsAgree(events'[Len(events') - 1], events'[Len(events')],
                        executions'[frame.executionId])
         /\ IF frame.kind = "call"
            THEN events'[Len(events')].value = events'[Len(events') - 1].value
            ELSE /\ events'[Len(events') - 1].value = 0
                 /\ events'[Len(events')].value = frame.amount]_vars

\* a token transfer has completed: its PermissionUsed event carries the
\* amount, its ExecutionRecorded event the value 0
C38_Witness ==
    /\ TopLevel
    /\ result # NoResult
    /\ result.op = "executeTokenTransfer"
    /\ result.status = Ok
    /\ events[Len(events)].event = "PermissionUsed"
    /\ events[Len(events)].value > 0
    /\ events[Len(events) - 1].event = "ExecutionRecorded"
    /\ events[Len(events) - 1].value = 0

\* the capabilities as the chain holds them: what a running call may still
\* undo is not yet among them
Committed(perms, f) == IF f.kind = "none" THEN perms ELSE f.saved.permissions

Terms(perm) ==
    <<perm.target, perm.selector, perm.maxValue, perm.maxTokenAmount,
      perm.tokenAddress, perm.expiry>>

\* C39: a stored capability keeps its target, selector, maxValue,
\* maxTokenAmount, token and expiry through every grant (one that yields its
\* id again included), revocation and execution, and stays stored.
C39_TermsImmutable ==
    [][\A u \in Callers : \A id \in DOMAIN Committed(permissions, frame)[u] :
          /\ id \in DOMAIN Committed(permissions', frame')[u]
          /\ Terms(Committed(permissions', frame')[u][id])
               = Terms(Committed(permissions, frame)[u][id])
          /\ Committed(permissions', frame')[u][id].target # ZeroAddress]_vars

\* a capability was granted, revoked, and granted again under the same id
C39_Witness ==
    /\ TopLevel
    /\ \E u \in Callers :
          /\ Len(userPermissions[u]) = 2
          /\ userPermissions[u][1] = userPermissions[u][2]
          /\ \E i \in DOMAIN events :
                /\ events[i].event = "PermissionRevoked"
                /\ events[i].permissionId = userPermissions[u][1]
====
